---------------------------- MODULE Spec2Model ----------------------------
(***************************************************************************)
(* Model of side_by_side.py: the layout cascade of parse_survey_file and   *)
(* the positional comparison of update_tables.                             *)
(*                                                                         *)
(* Representation.                                                         *)
(*  - A piece of text is a sequence of one-character strings.              *)
(*  - A cell of the decoded grid is a record [k, v, s]: k = "blank" (NaN), *)
(*    k = "num" (a cell pandas converts to a number, v = the value in      *)
(*    thousandths), k = "text" (a cell that is no number, s = its text).   *)
(*  - A number is a natural number of thousandths; NaN is -1.              *)
(*  - A string produced by f"{x:.2f}" is the natural number of hundredths  *)
(*    it prints; the empty string "" is EmptyStr = -1.                     *)
(*  - Rows and columns are 0-based as in the code; sequences are 1-based,  *)
(*    so row r of df is df[r + 1].                                         *)
(***************************************************************************)
EXTENDS Integers, Sequences, FiniteSets, TLC

RECURSIVE LStrip(_), RStrip(_), DigitsOf(_), FirstHeaderRow(_, _, _)
RECURSIVE CompareRows(_, _, _, _, _)

NaN == -1
EmptyStr == -1
None == "None"

Min(a, b) == IF a < b THEN a ELSE b
Range(s) == {s[i] : i \in 1..Len(s)}

---------------------------------------------------------------------------
(* Text: str.lower(), str.strip(), str(number)                             *)

UpperChars == <<"A","B","C","D","E","F","G","H","I","J","K","L","M",
                "N","O","P","Q","R","S","T","U","V","W","X","Y","Z">>
LowerChars == <<"a","b","c","d","e","f","g","h","i","j","k","l","m",
                "n","o","p","q","r","s","t","u","v","w","x","y","z">>
Whitespace == {" ", "\t"}

ToLower ==
    [c \in {UpperChars[i] : i \in 1..26} |->
        LowerChars[CHOOSE i \in 1..26 : UpperChars[i] = c]]

LowerChar(c) == IF c \in DOMAIN ToLower THEN ToLower[c] ELSE c

Lower(s) == [i \in 1..Len(s) |-> LowerChar(s[i])]

LStrip(s) == IF s # <<>> /\ Head(s) \in Whitespace THEN LStrip(Tail(s)) ELSE s
RStrip(s) ==
    IF s # <<>> /\ s[Len(s)] \in Whitespace THEN RStrip(SubSeq(s, 1, Len(s) - 1)) ELSE s
Strip(s) == RStrip(LStrip(s))

DigitChars == <<"0","1","2","3","4","5","6","7","8","9">>
DigitsOf(n) ==
    IF n < 10 THEN <<DigitChars[n + 1]>>
    ELSE Append(DigitsOf(n \div 10), DigitChars[(n % 10) + 1])

\* str() of a cell: the text itself, "nan" for a blank, the decimal digits of a number
Str(cell) ==
    CASE cell.k = "text"  -> cell.s
      [] cell.k = "blank" -> <<"n","a","n">>
      [] OTHER -> DigitsOf(cell.v \div 1000) \o <<".">> \o
                  <<DigitChars[((cell.v \div 100) % 10) + 1],
                    DigitChars[((cell.v \div 10) % 10) + 1],
                    DigitChars[(cell.v % 10) + 1]>>

---------------------------------------------------------------------------
(* Header mapping                                                          *)

Canonical == <<"MD", "INC", "AZ">>

COL_MAP ==
    [MD  |-> { <<"m","d">>,
               <<"m","e","a","s","u","r","e","d"," ","d","e","p","t","h">>,
               <<"s","u","r","v","e","y"," ","d","e","p","t","h">>,
               <<"s","d">>,
               <<"s","u","r","v","e","y">> },
     INC |-> { <<"i","n","c">>,
               <<"i","n","c","l","i","n","a","t","i","o","n">> },
     AZ  |-> { <<"a","z">>, <<"a","z","i">>,
               <<"a","z","i","m","u","t","h">>, <<"a","z","m">> }]

\* the first key of COL_MAP whose aliases hold h, None when there is none
StdKey(h) ==
    IF h \in COL_MAP.MD THEN "MD"
    ELSE IF h \in COL_MAP.INC THEN "INC"
    ELSE IF h \in COL_MAP.AZ THEN "AZ"
    ELSE None

standardize_headers(headers) ==
    [i \in 1..Len(headers) |-> StdKey(Strip(Lower(Str(headers[i]))))]

---------------------------------------------------------------------------
(* The decoded grid (a DataFrame read with header=None)                     *)

IsBlank(cell) == cell.k = "blank"
AllBlank(cells) == \A j \in 1..Len(cells) : IsBlank(cells[j])

\* df.dropna(how='all').reset_index(drop=True)
DropBlankRows(grid) == SelectSeq(grid, LAMBDA row : ~AllBlank(row))

NumCols(df) == IF df = <<>> THEN 0 ELSE Len(df[1])

\* whether df.iloc[r, cols] is inside the frame (otherwise IndexError)
InBounds(df, r, cols) ==
    /\ r < Len(df)
    /\ \A j \in 1..Len(cols) : cols[j] < NumCols(df)

\* df.iloc[r, cols].tolist()
Cells(df, r, cols) == [j \in 1..Len(cols) |-> df[r + 1][cols[j] + 1]]

\* pd.to_numeric(x, errors='coerce') of one cell
to_numeric(cell) == IF cell.k = "num" THEN cell.v ELSE NaN

\* f"{x:.2f}" if pd.notnull(x) else "": thousandths to printed hundredths
\* (round to nearest; the inputs of the model hold no value ending in 5
\* thousandths, whose direction depends on the binary float)
Fmt2(x) == IF x = NaN THEN EmptyStr ELSE (x + 5) \div 10

\* data_df[['MD','INC','AZ']] raises KeyError unless every name labels a column
HasColumns(std_headers) ==
    \A k \in 1..3 : \E j \in 1..Len(std_headers) : std_headers[j] = Canonical[k]

\* the position of the (first) column labelled name
ColumnOf(std_headers, name) ==
    CHOOSE j \in 1..Len(std_headers) :
        /\ std_headers[j] = name
        /\ \A i \in 1..(j - 1) : std_headers[i] # name

\* dropna(how='all') in place of dropna(subset=...): a row stays when some field is a number
KeepRowAnyField(nums) == nums.MD # NaN \/ nums.INC # NaN \/ nums.AZ # NaN

\* .dropna(subset=['MD','INC','AZ']): a row stays when no field is NaN
KeepRow(nums) == nums.MD # NaN /\ nums.INC # NaN /\ nums.AZ # NaN

\* The common tail of the three strategies: slice the data region, drop the
\* blank rows, label the columns, coerce to numbers, drop the rows with a
\* missing field, re-index, format with two decimals.
DataTable(df, data_start, cols, std_headers) ==
    LET region  == IF data_start < Len(df)
                   THEN [r \in 1..(Len(df) - data_start) |->
                            Cells(df, data_start + r - 1, cols)]
                   ELSE <<>>
        nonblank == SelectSeq(region, LAMBDA cs : ~AllBlank(cs))
        Num(cs)  == [MD  |-> to_numeric(cs[ColumnOf(std_headers, "MD")]),
                     INC |-> to_numeric(cs[ColumnOf(std_headers, "INC")]),
                     AZ  |-> to_numeric(cs[ColumnOf(std_headers, "AZ")])]
        numeric  == [r \in 1..Len(nonblank) |-> Num(nonblank[r])]
        kept     == SelectSeq(numeric, KeepRow)
    IN  [r \in 1..Len(kept) |->
            [MD  |-> Fmt2(kept[r].MD),
             INC |-> Fmt2(kept[r].INC),
             AZ  |-> Fmt2(kept[r].AZ)]]

Failed(strategy, why) ==
    [ok |-> FALSE, via |-> strategy, headers |-> <<>>, start |-> 0, cols |-> <<>>,
     rows |-> <<>>, err |-> <<why>>]

Parsed(strategy, df, data_start, cols, std_headers) ==
    [ok |-> TRUE, via |-> strategy, headers |-> std_headers, start |-> data_start,
     cols |-> cols, rows |-> DataTable(df, data_start, cols, std_headers), err |-> <<>>]

---------------------------------------------------------------------------
(* Strategy A: the fixed templates                                          *)

MWDHeaderRow == 16
MWDDataRow == 18
DDHeaderRow == 54
DDDataRow == 56
MWDCols == <<1, 2, 3>>
DDCols == <<0, 1, 2>>

try_parse(df, header_row_idx, header_cols, data_start_row_idx, data_cols) ==
    IF ~InBounds(df, header_row_idx, header_cols)
    THEN Failed("A", "IndexError")
    ELSE LET std_headers == standardize_headers(Cells(df, header_row_idx, header_cols))
         IN  IF None \in Range(std_headers)
             THEN Failed("A", "Unknown header detected")
             ELSE IF ~HasColumns(std_headers)
             THEN Failed("A", "KeyError")
             ELSE Parsed("A", df, data_start_row_idx, data_cols, std_headers)

StrategyA(df, survey_type) ==
    IF survey_type = "MWD"
    THEN try_parse(df, MWDHeaderRow, MWDCols, MWDDataRow, MWDCols)
    ELSE try_parse(df, DDHeaderRow, DDCols, DDDataRow, DDCols)

---------------------------------------------------------------------------
(* Strategy B: the keyword scan                                             *)

ScanLimit == 100

AllAliases == COL_MAP.MD \cup COL_MAP.INC \cup COL_MAP.AZ

\* row = df.iloc[i].astype(str).str.lower(): the text the scan compares
ScanText(cell) == Lower(Str(cell))

\* matches = [any(cell in aliases for cell in row) for aliases in COL_MAP.values()]
AllMatches(row) ==
    LET texts == {ScanText(row[j]) : j \in 1..Len(row)}
    IN  \A k \in 1..3 : texts \cap COL_MAP[Canonical[k]] # {}

\* the first i in range(min(100, len(df))), from i on, with all(matches); -1 if none
FirstHeaderRow(df, i, n) ==
    IF i >= n THEN -1
    ELSE IF AllMatches(df[i + 1]) THEN i
    ELSE FirstHeaderRow(df, i + 1, n)

\* cols = [j for j, cell in enumerate(row) if any(cell in aliases ...)]
KeywordCols(row) ==
    SelectSeq([j \in 1..Len(row) |-> j - 1],
              LAMBDA c : ScanText(row[c + 1]) \in AllAliases)

\* the length test left out
AnyHeaderCount(std_headers) == TRUE

\* len(std_headers) != 3 is rejected
ThreeHeaders(std_headers) == Len(std_headers) = 3

StrategyB(df) ==
    LET i == FirstHeaderRow(df, 0, Min(ScanLimit, Len(df)))
    IN  IF i = -1
        THEN Failed("B", "no header row")
        ELSE LET cols        == KeywordCols(df[i + 1])
                 std_headers == standardize_headers(Cells(df, i, cols))
             IN  IF None \in Range(std_headers) \/ ~ThreeHeaders(std_headers)
                 THEN Failed("B", "Keyword-based header detection failed.")
                 ELSE IF ~HasColumns(std_headers)
                 THEN Failed("B", "KeyError")
                 ELSE Parsed("B", df, i + 1, cols, std_headers)

---------------------------------------------------------------------------
(* Strategy C: the Well Seeker Pro fallback                                 *)

WSPHeaderRow == 69
WSPDataRow == 71
WSPCols == <<0, 1, 2>>

\* all(pd.to_numeric(sample, errors='coerce').notna())
AllNumeric(cells) == \A j \in 1..Len(cells) : to_numeric(cells[j]) # NaN

StrategyC(df) ==
    IF ~InBounds(df, WSPHeaderRow, WSPCols)
    THEN Failed("C", "IndexError")
    ELSE LET std_headers == standardize_headers(Cells(df, WSPHeaderRow, WSPCols))
         IN  IF None \in Range(std_headers)
             THEN Failed("C", "Unknown header detected in WSP fallback")
             ELSE IF ~InBounds(df, WSPDataRow, WSPCols)
             THEN Failed("C", "IndexError")
             ELSE LET first_data_row ==
                          IF AllNumeric(Cells(df, WSPDataRow, WSPCols))
                          THEN WSPDataRow ELSE WSPDataRow + 1
                  IN  IF ~HasColumns(std_headers)
                      THEN Failed("C", "KeyError")
                      ELSE Parsed("C", df, first_data_row, WSPCols, std_headers)

---------------------------------------------------------------------------
(* parse_survey_file as one call                                            *)

SupportedExt == {"csv", "xls", "xlsx"}

Unsupported ==
    [ok |-> FALSE, via |-> "none", headers |-> <<>>, start |-> 0, cols |-> <<>>,
     rows |-> <<>>, err |-> <<"Unsupported file type">>]

\* raise ValueError(f"Failed all parsing methods: {str(e)}")
AllFailed(last) ==
    [ok |-> FALSE, via |-> "C", headers |-> <<>>, start |-> 0, cols |-> <<>>,
     rows |-> <<>>, err |-> <<"Failed all parsing methods">> \o last.err]

parse_survey_file(contents, survey_type) ==
    IF contents.ext \notin SupportedExt
    THEN Unsupported
    ELSE LET df == DropBlankRows(contents.grid)
             a  == StrategyA(df, survey_type)
             b  == StrategyB(df)
             c  == StrategyC(df)
         IN  IF a.ok THEN a
             ELSE IF b.ok THEN b
             ELSE IF c.ok THEN c
             ELSE AllFailed(c)

---------------------------------------------------------------------------
(* update_tables: the comparison                                            *)

\* pd.to_numeric(text, errors='coerce') of a formatted field, in thousandths
ToNumericStr(text) == IF text = EmptyStr THEN NaN ELSE text * 10

\* round(x, 1) in place of round(x, 2)
Round1(x) == (x + 50) \div 100

\* round(x, 2): thousandths to hundredths
Round2(x) == (x + 5) \div 10

\* a one-sided test, > in place of !=
FieldMismatchOneSided(left, right) ==
    LET val_left  == ToNumericStr(left)
        val_right == ToNumericStr(right)
    IN  val_left = NaN \/ val_right = NaN \/ Round2(val_left) > Round2(val_right)

FieldMismatch(left, right) ==
    LET val_left  == ToNumericStr(left)
        val_right == ToNumericStr(right)
    IN  val_left = NaN \/ val_right = NaN \/ Round2(val_left) # Round2(val_right)

TableColor == [MD |-> "#d22e2e", INC |-> "#d27c2e", AZ |-> "#7c2ed2"]
MismatchColor == [MD |-> "#d22e2e", INC |-> "#e88325", AZ |-> "#7c2ed2"]
MwdColumn == [MD |-> "MWD_MD", INC |-> "MWD_INC", AZ |-> "MWD_AZ"]
DdColumn == [MD |-> "DD_MD", INC |-> "DD_INC", AZ |-> "DD_AZ"]

Style(row_index, column_id, color) ==
    [row_index |-> row_index, column_id |-> column_id, backgroundColor |-> color]

\* range(min_len - 1): the last common row left out
MinLenOffByOne(mwd_df, dd_df) ==
    IF Min(Len(mwd_df), Len(dd_df)) > 0 THEN Min(Len(mwd_df), Len(dd_df)) - 1 ELSE 0

MinLen(mwd_df, dd_df) == Min(Len(mwd_df), Len(dd_df))

EmptyAcc ==
    [style_cond_mwd |-> <<>>, style_cond_dd |-> <<>>, style_cond_mismatch |-> <<>>,
     mismatches |-> [MD |-> 0, INC |-> 0, AZ |-> 0, rows |-> 0],
     mismatch_rows |-> <<>>, mwd_mismatch_csv |-> <<>>, dd_mismatch_csv |-> <<>>]

\* one pass of "for i in range(min_len)" over row i
CompareRow(mwd_df, dd_df, i, acc) ==
    LET l == mwd_df[i + 1]
        r == dd_df[i + 1]
        mismatch_columns ==
            SelectSeq(Canonical, LAMBDA col : FieldMismatch(l[col], r[col]))
        Count(col) ==
            acc.mismatches[col] + (IF col \in Range(mismatch_columns) THEN 1 ELSE 0)
        cell_styles ==
            [k \in 1..Len(mismatch_columns) |->
                Style(i, mismatch_columns[k], TableColor[mismatch_columns[k]])]
        row_styles ==
            [k \in 1..(2 * Len(mismatch_columns)) |->
                LET col == mismatch_columns[(k + 1) \div 2]
                IN  Style(Len(acc.mismatch_rows),
                          IF k % 2 = 1 THEN MwdColumn[col] ELSE DdColumn[col],
                          MismatchColor[col])]
    IN  IF mismatch_columns = <<>>
        THEN acc
        ELSE [style_cond_mwd |-> acc.style_cond_mwd \o cell_styles,
              style_cond_dd |-> acc.style_cond_dd \o cell_styles,
              style_cond_mismatch |-> acc.style_cond_mismatch \o row_styles,
              mismatches |-> [MD |-> Count("MD"), INC |-> Count("INC"),
                              AZ |-> Count("AZ"), rows |-> acc.mismatches.rows + 1],
              mismatch_rows |-> Append(acc.mismatch_rows,
                  [Index |-> i + 1,
                   MWD_MD |-> l.MD, MWD_INC |-> l.INC, MWD_AZ |-> l.AZ,
                   DD_MD |-> r.MD, DD_INC |-> r.INC, DD_AZ |-> r.AZ]),
              mwd_mismatch_csv |-> Append(acc.mwd_mismatch_csv, <<l.MD, l.INC, l.AZ>>),
              dd_mismatch_csv |-> Append(acc.dd_mismatch_csv, <<r.MD, r.INC, r.AZ>>)]

CompareRows(mwd_df, dd_df, i, min_len, acc) ==
    IF i >= min_len THEN acc
    ELSE CompareRows(mwd_df, dd_df, i + 1, min_len, CompareRow(mwd_df, dd_df, i, acc))

\* the empty comparison scored 100
AccuracyEmptyIsFull(rows, min_len) ==
    IF min_len > 0
    THEN [num |-> 100 * min_len - rows * 100, den |-> min_len]
    ELSE [num |-> 100, den |-> 1]

\* 100 - (rows / min_len * 100) if min_len > 0 else 0, as the exact fraction num/den
Accuracy(rows, min_len) ==
    IF min_len > 0
    THEN [num |-> 100 * min_len - rows * 100, den |-> min_len]
    ELSE [num |-> 0, den |-> 1]

HeaderLine == [text |-> "MD,INC,AZ", fields |-> <<>>]

\* the header written whether or not a row mismatched
CsvTextAlwaysHeader(rows) ==
    <<HeaderLine>> \o [k \in 1..Len(rows) |-> [text |-> "", fields |-> rows[k]]]

\* "MD,INC,AZ\n" + "\n".join(",".join(row) for row in rows) if rows else "",
\* as the sequence of its lines
CsvText(rows) ==
    IF rows # <<>>
    THEN <<HeaderLine>> \o [k \in 1..Len(rows) |-> [text |-> "", fields |-> rows[k]]]
    ELSE <<>>

NoneStore == [none |-> TRUE, text |-> <<>>]
Store(text) == [none |-> FALSE, text |-> text]

Message(kind, msg) ==
    [kind |-> kind, msg |-> msg, total |-> 0, rows |-> 0, MD |-> 0, INC |-> 0,
     AZ |-> 0, accuracy |-> [num |-> 0, den |-> 1]]

\* the nine values update_tables returns without tables
NoTables(kind, msg) ==
    [mwd_data |-> <<>>, mwd_style |-> <<>>, dd_data |-> <<>>, dd_style |-> <<>>,
     summary |-> Message(kind, msg), mismatched_data |-> <<>>,
     mismatched_style |-> <<>>, store_mwd |-> NoneStore, store_dd |-> NoneStore]

\* only the MWD parse guarded
ParseFailedMwdOnly(mwd, dd) == ~mwd.ok

\* the except branch of the two parses is taken
ParseFailed(mwd, dd) == ~mwd.ok \/ ~dd.ok

Compared(mwd_df, dd_df) ==
    LET min_len == MinLen(mwd_df, dd_df)
        acc     == CompareRows(mwd_df, dd_df, 0, min_len, EmptyAcc)
    IN  [mwd_data |-> mwd_df, mwd_style |-> acc.style_cond_mwd,
         dd_data |-> dd_df, dd_style |-> acc.style_cond_dd,
         summary |-> [kind |-> "summary", msg |-> <<>>, total |-> min_len,
                      rows |-> acc.mismatches.rows, MD |-> acc.mismatches.MD,
                      INC |-> acc.mismatches.INC, AZ |-> acc.mismatches.AZ,
                      accuracy |-> Accuracy(acc.mismatches.rows, min_len)],
         mismatched_data |-> acc.mismatch_rows,
         mismatched_style |-> acc.style_cond_mismatch,
         store_mwd |-> Store(CsvText(acc.mwd_mismatch_csv)),
         store_dd |-> Store(CsvText(acc.dd_mismatch_csv))]

update_tables(mwd_contents, dd_contents) ==
    IF ~mwd_contents.present \/ ~dd_contents.present
    THEN NoTables("prompt", <<"Upload both MWD and DD survey files to compare.">>)
    ELSE LET mwd == parse_survey_file(mwd_contents, "MWD")
             dd  == parse_survey_file(dd_contents, "DD")
         IN  IF ParseFailed(mwd, dd)
             THEN NoTables("error", <<"Error parsing files:">> \o
                                    (IF ~mwd.ok THEN mwd.err ELSE dd.err))
             ELSE Compared(mwd.rows, dd.rows)

---------------------------------------------------------------------------
(* The inputs the model draws from                                          *)

Width == 4
MaxData == 2
MaxRows == 2
MaxGap == 2

Blank == [k |-> "blank", v |-> 0, s |-> <<>>]
Num(v) == [k |-> "num", v |-> v, s |-> <<>>]
Text(s) == [k |-> "text", v |-> 0, s |-> s]

\* a grid row of Width cells holding cells from column off on
RowAt(off, cells) ==
    [c \in 1..Width |-> IF c - off \in 1..Len(cells) THEN cells[c - off] ELSE Blank]

BlankRow == RowAt(0, <<>>)
FillerRow == RowAt(0, <<Text(<<"W","e","l","l">>)>>)
UnitsRow(off) == RowAt(off, <<Text(<<"f","t">>), Text(<<"d","e","g">>), Text(<<"d","e","g">>)>>)

T_md == Text(<<"m","d">>)
T_sd == Text(<<"s","d">>)
T_inc == Text(<<"i","n","c">>)
T_az == Text(<<"a","z">>)

HeaderRows ==
    { <<T_md, T_inc, T_az>>,
      <<Text(<<"A","z","i","m","u","t","h">>), Text(<<"M","D">>), Text(<<"I","n","c">>)>>,
      <<T_md, T_inc, Text(<<" "," ","A","z","i","m","u","t","h"," ">>)>>,
      <<T_md, T_sd, T_inc>>,
      <<T_md, T_inc, Text(<<"t","v","d">>)>>,
      <<T_md, Blank, T_az>>,
      <<T_md, T_sd, T_inc, T_az>> }

StdHeader == <<T_md, T_inc, T_az>>

\* data rows: complete ones (thousandths), one with a blank field, one with a
\* text field, one entirely blank
DataRows ==
    { <<Num(100000), Num(1000), Num(10000)>>,
      <<Num(200006), Num(2004), Num(20000)>>,
      <<Num(300000), Blank, Num(30000)>>,
      <<Num(400000), Num(4000), Text(<<"n","/","a">>)>>,
      <<Blank, Blank, Blank>> }

SeqsUpTo(S, n) == UNION {[1..m -> S] : m \in 0..n}

PreRows == {0, 16, 54, 69, 99, 100}

\* blank rows, filler rows (the first one possibly a keyword header), the header
\* row, gap rows of units, the data rows
MkGrid(lead, kw, pre, off, hdr, gap, data) ==
    [r \in 1..lead |-> BlankRow] \o
    [r \in 1..pre |-> IF kw /\ r = 1 THEN RowAt(0, StdHeader) ELSE FillerRow] \o
    <<RowAt(off, hdr)>> \o
    [r \in 1..gap |-> UnitsRow(off)] \o
    [r \in 1..Len(data) |-> RowAt(off, data[r])]

File(ext, grid) == [present |-> TRUE, ext |-> ext, grid |-> grid]
NoFile == [present |-> FALSE, ext |-> "", grid |-> <<>>]

SampleData == << <<Num(100000), Num(1000), Num(10000)>>,
                 <<Num(300000), Blank, Num(30000)>> >>

\* every layout with one data region; every data region under the layouts
\* the three strategies accept
LayoutFiles ==
    { File("csv", MkGrid(lead, kw, pre, off, hdr, gap, SampleData)) :
        lead \in 0..1, kw \in BOOLEAN, pre \in PreRows, off \in 0..1,
        hdr \in HeaderRows, gap \in 0..MaxGap }

DataFiles ==
    { File("xlsx", MkGrid(0, FALSE, pre, IF pre = 16 THEN 1 ELSE 0, StdHeader, gap, data)) :
        pre \in {0, 16, 54, 69}, gap \in 0..MaxGap, data \in SeqsUpTo(DataRows, MaxData) }

ParseFiles == LayoutFiles \cup DataFiles \cup {File("txt", MkGrid(0, FALSE, 0, 0, StdHeader, 0, SampleData))}

\* survey stations: a base row, one whose MD prints differently, one whose MD
\* prints alike and whose INC and AZ print differently
Stations ==
    { <<Num(100000), Num(1000), Num(10000)>>,
      <<Num(100006), Num(1000), Num(10000)>>,
      <<Num(100004), Num(1010), Num(10010)>> }

UploadFiles ==
    { File("csv", MkGrid(0, FALSE, 0, 0, <<T_az, T_md, T_inc>>, 0,
                         [r \in 1..Len(d) |-> <<d[r][3], d[r][1], d[r][2]>>])) :
        d \in SeqsUpTo(Stations, MaxRows) }
    \cup { File("xlsx", MkGrid(1, FALSE, 16, 1, StdHeader, 1, SampleData)),
           File("csv", MkGrid(0, FALSE, 0, 0, <<T_md, T_sd, T_inc>>, 0, SampleData)),
           File("txt", MkGrid(0, FALSE, 0, 0, StdHeader, 0, SampleData)) }

---------------------------------------------------------------------------
(* State                                                                    *)

VARIABLES
    upload_mwd, upload_dd,            \* the contents of the two dcc.Upload components
    mwd_data, mwd_style,              \* mwd-table: data, style_data_conditional
    dd_data, dd_style,                \* dd-table: data, style_data_conditional
    summary,                          \* summary: children
    mismatched_data, mismatched_style,\* mismatched-table
    store_mwd, store_dd,              \* store-mwd-mismatch, store-dd-mismatch: data
    contents, survey_type,            \* the arguments of one parse_survey_file call
    pc, df, attempts, result          \* its position, its frame, the strategies
                                      \* it has entered, what it returned or raised

outputs == <<mwd_data, mwd_style, dd_data, dd_style, summary,
             mismatched_data, mismatched_style, store_mwd, store_dd>>
uploads == <<upload_mwd, upload_dd>>
call == <<contents, survey_type, pc, df, attempts, result>>
vars == <<uploads, outputs, call>>

NoResult == Failed("none", "")

\* the nine outputs hold what update_tables returned
Shown(o) ==
    /\ mwd_data = o.mwd_data
    /\ mwd_style = o.mwd_style
    /\ dd_data = o.dd_data
    /\ dd_style = o.dd_style
    /\ summary = o.summary
    /\ mismatched_data = o.mismatched_data
    /\ mismatched_style = o.mismatched_style
    /\ store_mwd = o.store_mwd
    /\ store_dd = o.store_dd

\* the callback has run once on the empty page
PageLoaded ==
    /\ upload_mwd = NoFile
    /\ upload_dd = NoFile
    /\ Shown(update_tables(NoFile, NoFile))

NoCall ==
    /\ contents = NoFile
    /\ survey_type = "MWD"
    /\ pc = "idle"
    /\ df = <<>>
    /\ attempts = <<>>
    /\ result = NoResult

---------------------------------------------------------------------------
(* The page: each upload runs update_tables                                 *)

Init == PageLoaded /\ NoCall

Render(o) ==
    /\ mwd_data' = o.mwd_data
    /\ mwd_style' = o.mwd_style
    /\ dd_data' = o.dd_data
    /\ dd_style' = o.dd_style
    /\ summary' = o.summary
    /\ mismatched_data' = o.mismatched_data
    /\ mismatched_style' = o.mismatched_style
    /\ store_mwd' = o.store_mwd
    /\ store_dd' = o.store_dd

UploadMWD(f) ==
    /\ upload_mwd' = f
    /\ UNCHANGED upload_dd
    /\ Render(update_tables(f, upload_dd))
    /\ UNCHANGED call

UploadDD(f) ==
    /\ upload_dd' = f
    /\ UNCHANGED upload_mwd
    /\ Render(update_tables(upload_mwd, f))
    /\ UNCHANGED call

Next ==
    \/ \E f \in UploadFiles : UploadMWD(f)
    \/ \E f \in UploadFiles : UploadDD(f)

Spec == Init /\ [][Next]_vars

---------------------------------------------------------------------------
(* One call of parse_survey_file, strategy by strategy                      *)

InitParse ==
    /\ PageLoaded
    /\ contents \in ParseFiles
    /\ survey_type \in {"MWD", "DD"}
    /\ pc = "read"
    /\ df = <<>>
    /\ attempts = <<>>
    /\ result = NoResult

ReadFile ==
    /\ pc = "read"
    /\ IF contents.ext \notin SupportedExt
       THEN /\ pc' = "raised"
            /\ result' = Unsupported
            /\ UNCHANGED df
       ELSE /\ pc' = "primary"
            /\ df' = DropBlankRows(contents.grid)
            /\ UNCHANGED result
    /\ UNCHANGED <<contents, survey_type, attempts, uploads, outputs>>

\* TryPrimary going straight to the fallback when the template fails
TryPrimarySkipsKeyword ==
    /\ pc = "primary"
    /\ attempts' = Append(attempts, "A")
    /\ LET a == StrategyA(df, survey_type)
       IN  IF a.ok
           THEN pc' = "returned" /\ result' = a
           ELSE pc' = "fallback" /\ UNCHANGED result
    /\ UNCHANGED <<contents, survey_type, df, uploads, outputs>>

TryPrimary ==
    /\ pc = "primary"
    /\ attempts' = Append(attempts, "A")
    /\ LET a == StrategyA(df, survey_type)
       IN  IF a.ok
           THEN pc' = "returned" /\ result' = a
           ELSE pc' = "keyword" /\ UNCHANGED result
    /\ UNCHANGED <<contents, survey_type, df, uploads, outputs>>

TryKeyword ==
    /\ pc = "keyword"
    /\ attempts' = Append(attempts, "B")
    /\ LET b == StrategyB(df)
       IN  IF b.ok
           THEN pc' = "returned" /\ result' = b
           ELSE pc' = "fallback" /\ UNCHANGED result
    /\ UNCHANGED <<contents, survey_type, df, uploads, outputs>>

TryFallback ==
    /\ pc = "fallback"
    /\ attempts' = Append(attempts, "C")
    /\ LET c == StrategyC(df)
       IN  IF c.ok
           THEN pc' = "returned" /\ result' = c
           ELSE pc' = "raised" /\ result' = AllFailed(c)
    /\ UNCHANGED <<contents, survey_type, df, uploads, outputs>>

NextParse == ReadFile \/ TryPrimary \/ TryKeyword \/ TryFallback

SpecParse == InitParse /\ [][NextParse]_vars

---------------------------------------------------------------------------
(* Claims about parse_survey_file, checked under SpecParse                  *)

Order == <<"A", "B", "C">>

\* C1: the strategies are entered in the order A, B, C, each only after the
\* ones before it failed; the table returned is that of the first strategy
\* that succeeds; the call raises only when all three have failed.
C1_CascadeOrder ==
    LET a == StrategyA(df, survey_type)
        b == StrategyB(df)
        c == StrategyC(df)
    IN  /\ Len(attempts) <= 3
        /\ \A i \in 1..Len(attempts) : attempts[i] = Order[i]
        /\ Len(attempts) >= 2 => ~a.ok
        /\ Len(attempts) >= 3 => ~a.ok /\ ~b.ok
        /\ pc = "returned" =>
              /\ result.ok
              /\ result.via = attempts[Len(attempts)]
              /\ result = (IF a.ok THEN a ELSE IF b.ok THEN b ELSE c)
        /\ (pc = "raised" /\ contents.ext \in SupportedExt) =>
              /\ attempts = Order
              /\ ~a.ok /\ ~b.ok /\ ~c.ok
              /\ ~result.ok

\* a grid valid under the template is returned through A although the keyword
\* scan would succeed on it too, with another table
C1_Witness ==
    /\ pc = "returned"
    /\ result.via = "A"
    /\ attempts = <<"A">>
    /\ StrategyB(df).ok
    /\ StrategyB(df).rows # result.rows

\* the rows of the data region of the returned table whose three cells are numbers
FullyNumericRows ==
    { r \in result.start..(Len(df) - 1) :
        \A j \in 1..Len(result.cols) : df[r + 1][result.cols[j] + 1].k = "num" }

\* the rows of the data region with some numeric cell and some cell that is none
PartialRows ==
    { r \in result.start..(Len(df) - 1) :
        /\ \E j \in 1..Len(result.cols) : df[r + 1][result.cols[j] + 1].k = "num"
        /\ \E j \in 1..Len(result.cols) : df[r + 1][result.cols[j] + 1].k # "num" }

\* C2: whichever strategy succeeds, every returned row holds three parsed
\* numbers, none blank, and the rows returned are as many as the data region
\* has rows whose three cells are all numeric.
C2_OnlyCompleteRows ==
    pc = "returned" =>
        /\ \A i \in 1..Len(result.rows) :
              /\ result.rows[i].MD # EmptyStr
              /\ result.rows[i].INC # EmptyStr
              /\ result.rows[i].AZ # EmptyStr
        /\ Len(result.rows) = Cardinality(FullyNumericRows)

C2_Witness ==
    /\ pc = "returned"
    /\ PartialRows # {}
    /\ Len(result.rows) >= 1

ExactHeaders(h) ==
    /\ Len(h) = 3
    /\ None \notin Range(h)
    /\ Range(h) = {"MD", "INC", "AZ"}

\* the header cells strategy s looks at, resolved; <<>> when it finds none
ResolvedAt(s) ==
    IF s = "A"
    THEN LET hr == IF survey_type = "MWD" THEN MWDHeaderRow ELSE DDHeaderRow
             hc == IF survey_type = "MWD" THEN MWDCols ELSE DDCols
         IN  IF InBounds(df, hr, hc) THEN standardize_headers(Cells(df, hr, hc)) ELSE <<>>
    ELSE IF s = "B"
    THEN LET i == FirstHeaderRow(df, 0, Min(ScanLimit, Len(df)))
         IN  IF i = -1 THEN <<>>
             ELSE standardize_headers(Cells(df, i, KeywordCols(df[i + 1])))
    ELSE IF InBounds(df, WSPHeaderRow, WSPCols)
         THEN standardize_headers(Cells(df, WSPHeaderRow, WSPCols)) ELSE <<>>

\* C3: a strategy produces a table only if its header cells resolve to MD, INC
\* and AZ, each once, with no null; an attempt whose headers hold a null, a
\* duplicate or a number of names other than three returns no table, and the
\* call goes on to the next strategy or, after C, raises.
C3_ExactHeaders ==
    /\ pc = "returned" =>
          /\ ExactHeaders(result.headers)
          /\ result.headers = ResolvedAt(result.via)
    /\ \A i \in 1..Len(attempts) :
          ~ExactHeaders(ResolvedAt(attempts[i])) =>
              /\ ~(pc = "returned" /\ result.via = attempts[i])
              /\ \/ Len(attempts) > i
                 \/ pc = (IF i = 1 THEN "keyword" ELSE IF i = 2 THEN "fallback" ELSE "raised")

\* the template's header cells resolve to two MD and one INC, with no null,
\* and the call has gone on to the keyword scan
C3_Witness ==
    /\ Len(attempts) >= 2
    /\ ResolvedAt("A") = <<"MD", "MD", "INC">>

\* C8: a header cell matches the alias table by its lowercased, trimmed text,
\* in standardize_headers and in the keyword scan alike: on every scanned row
\* the scan takes a cell for an alias exactly when standardize_headers
\* resolves it.
C8_ScanTrimsLikeStandardize ==
    pc \in {"keyword", "fallback", "returned", "raised"} =>
        \A r \in 1..Min(ScanLimit, Len(df)) : \A c \in 1..NumCols(df) :
            (ScanText(df[r][c]) \in AllAliases) <=>
                (standardize_headers(<<df[r][c]>>)[1] # None)

---------------------------------------------------------------------------
(* Claims about update_tables, checked under Spec                           *)

BothUploaded == upload_mwd.present /\ upload_dd.present
MwdParse == parse_survey_file(upload_mwd, "MWD")
DdParse == parse_survey_file(upload_dd, "DD")
EmptyBlock(store) == store.text = <<>>
Shows == summary.kind = "summary"

\* C4: when either parse fails, the two tables, the three highlight lists, the
\* mismatch table and the two export blocks are empty and the summary is the
\* error message; a table, a mismatch table or an export block that is not
\* empty occurs only when both parses succeeded.
C4_NoPartialResults ==
    /\ (BothUploaded /\ (~MwdParse.ok \/ ~DdParse.ok)) =>
          /\ mwd_data = <<>> /\ dd_data = <<>>
          /\ mwd_style = <<>> /\ dd_style = <<>> /\ mismatched_style = <<>>
          /\ mismatched_data = <<>>
          /\ EmptyBlock(store_mwd) /\ EmptyBlock(store_dd)
          /\ summary.kind = "error"
          /\ summary.msg = <<"Error parsing files:">> \o
                           (IF ~MwdParse.ok THEN MwdParse.err ELSE DdParse.err)
    /\ (\/ mwd_data # <<>> \/ dd_data # <<>> \/ mismatched_data # <<>>
        \/ ~EmptyBlock(store_mwd) \/ ~EmptyBlock(store_dd)) =>
          BothUploaded /\ MwdParse.ok /\ DdParse.ok

\* the MWD parse returned rows and the DD parse failed after it
C4_Witness ==
    /\ BothUploaded
    /\ MwdParse.ok /\ MwdParse.rows # <<>>
    /\ ~DdParse.ok
    /\ summary.kind = "error"

CommonLen == Min(Len(mwd_data), Len(dd_data))

\* the compared rows (1-based) whose field col prints differently on the two sides
Differ(col) == { i \in 1..CommonLen : mwd_data[i][col] # dd_data[i][col] }
DifferingRows == Differ("MD") \cup Differ("INC") \cup Differ("AZ")

\* C5: exactly min(a, b) rows are compared: that is the total reported and the
\* denominator of the accuracy, every common row that differs is reported, and
\* no record, highlight or export line refers to a row from min(a, b) on.
C5_Truncation ==
    Shows =>
        /\ summary.total = CommonLen
        /\ CommonLen > 0 => summary.accuracy.den = CommonLen
        /\ {mismatched_data[k].Index : k \in 1..Len(mismatched_data)} = DifferingRows
        /\ \A k \in 1..Len(mwd_style) : mwd_style[k].row_index < CommonLen
        /\ \A k \in 1..Len(dd_style) : dd_style[k].row_index < CommonLen
        /\ \A k \in 1..Len(mismatched_style) : mismatched_style[k].row_index < CommonLen
        /\ Len(store_mwd.text) <= 1 + CommonLen
        /\ Len(store_dd.text) <= 1 + CommonLen

\* tables of different lengths, the common rows not all alike
C5_Witness ==
    /\ Shows
    /\ Len(mwd_data) > Len(dd_data)
    /\ CommonLen > 0
    /\ summary.rows > 0

\* C6: accuracy = 100 * (1 - rows / minLen) when minLen > 0, between 0 and 100;
\* 0 when minLen = 0, where the mismatch list is empty and no error is shown.
C6_Accuracy ==
    /\ Shows =>
          /\ summary.accuracy.den > 0
          /\ summary.accuracy.num * CommonLen =
                 100 * (CommonLen - summary.rows) * summary.accuracy.den
          /\ 0 <= summary.accuracy.num
          /\ summary.accuracy.num <= 100 * summary.accuracy.den
          /\ CommonLen = 0 => summary.accuracy.num = 0 /\ mismatched_data = <<>>
    /\ (BothUploaded /\ MwdParse.ok /\ DdParse.ok) => Shows

\* two rows compared, one of them mismatched: 50%
C6_Witness ==
    /\ Shows
    /\ summary.total = 2
    /\ summary.rows = 1
    /\ summary.accuracy = [num |-> 100, den |-> 2]

SwapSides(rec) ==
    [Index |-> rec.Index,
     MWD_MD |-> rec.DD_MD, MWD_INC |-> rec.DD_INC, MWD_AZ |-> rec.DD_AZ,
     DD_MD |-> rec.MWD_MD, DD_INC |-> rec.MWD_INC, DD_AZ |-> rec.MWD_AZ]

\* C7: comparing the tables the other way round gives the same total, counts,
\* accuracy and mismatched rows; only the sides of the records, of the
\* highlights and of the export blocks are exchanged.
C7_Symmetry ==
    Shows =>
        LET rev == Compared(dd_data, mwd_data)
        IN  /\ rev.summary = summary
            /\ Len(rev.mismatched_data) = Len(mismatched_data)
            /\ \A k \in 1..Len(mismatched_data) :
                  rev.mismatched_data[k] = SwapSides(mismatched_data[k])
            /\ rev.mwd_style = dd_style /\ rev.dd_style = mwd_style
            /\ rev.mismatched_style = mismatched_style
            /\ rev.store_mwd = store_dd /\ rev.store_dd = store_mwd

C7_Witness ==
    /\ Shows
    /\ summary.rows > 0
    /\ Len(mwd_data) # Len(dd_data)
    /\ \E k \in 1..Len(mismatched_data) :
          mismatched_data[k].MWD_MD > mismatched_data[k].DD_MD

\* the export block of one side: the header, then the MD, INC, AZ of the table's
\* mismatched rows in the order of the mismatch table
ExpectedBlock(table) ==
    <<HeaderLine>> \o
    [k \in 1..Len(mismatched_data) |->
        LET row == table[mismatched_data[k].Index]
        IN  [text |-> "", fields |-> <<row.MD, row.INC, row.AZ>>]]

\* C9: an export block is the empty text when no row mismatched; otherwise the
\* line MD,INC,AZ and one line per mismatched row, in ascending row order, of
\* that side's MD, INC and AZ; the two blocks have 1 + rowMismatchCount lines.
C9_ExportBlocks ==
    Shows =>
        /\ ~store_mwd.none /\ ~store_dd.none
        /\ summary.rows = 0 => store_mwd.text = <<>> /\ store_dd.text = <<>>
        /\ summary.rows > 0 =>
              /\ store_mwd.text = ExpectedBlock(mwd_data)
              /\ store_dd.text = ExpectedBlock(dd_data)
              /\ Len(store_mwd.text) = 1 + summary.rows
              /\ Len(store_dd.text) = 1 + summary.rows
        /\ \A k \in 1..(Len(mismatched_data) - 1) :
              mismatched_data[k].Index < mismatched_data[k + 1].Index

C9_Witness ==
    /\ Shows
    /\ summary.rows = 2
    /\ Len(store_mwd.text) = 3
    /\ store_mwd.text # store_dd.text

\* C10: each field counter is the number of compared rows whose two values of
\* the field differ at two decimals; the row counter is the number of compared
\* rows with some such field and the number of records; each field counter <=
\* the row counter <= their sum; the records carry increasing 1-based indices
\* and the three values of both sides.
C10_CountersAgree ==
    Shows =>
        /\ summary.MD = Cardinality(Differ("MD"))
        /\ summary.INC = Cardinality(Differ("INC"))
        /\ summary.AZ = Cardinality(Differ("AZ"))
        /\ summary.rows = Cardinality(DifferingRows)
        /\ summary.rows = Len(mismatched_data)
        /\ summary.MD <= summary.rows
        /\ summary.INC <= summary.rows
        /\ summary.AZ <= summary.rows
        /\ summary.rows <= summary.MD + summary.INC + summary.AZ
        /\ \A k \in 1..Len(mismatched_data) :
              LET rec == mismatched_data[k]
              IN  /\ rec.Index \in DifferingRows
                  /\ k > 1 => mismatched_data[k - 1].Index < rec.Index
                  /\ rec.MWD_MD = mwd_data[rec.Index].MD
                  /\ rec.MWD_INC = mwd_data[rec.Index].INC
                  /\ rec.MWD_AZ = mwd_data[rec.Index].AZ
                  /\ rec.DD_MD = dd_data[rec.Index].MD
                  /\ rec.DD_INC = dd_data[rec.Index].INC
                  /\ rec.DD_AZ = dd_data[rec.Index].AZ

\* A = [100.00, 1.00, 10.00], B = [100.01, 1.00, 10.00]: MD alone mismatches
C10_Witness ==
    /\ Shows
    /\ mwd_data = <<[MD |-> 10000, INC |-> 100, AZ |-> 1000]>>
    /\ dd_data = <<[MD |-> 10001, INC |-> 100, AZ |-> 1000]>>
    /\ summary.MD = 1 /\ summary.INC = 0 /\ summary.AZ = 0
    /\ summary.rows = 1
    /\ summary.accuracy.num = 0
    /\ mismatched_data[1].MWD_INC = 100

=============================================================================
